---- MODULE Spec2Model ----
(***************************************************************************)
(* A model of the violation pipeline of the Frigate dashboard middleware:  *)
(*   - the Redis cache layer           (app/cache.py)                      *)
(*   - the background task manager     (app/services/background.py)        *)
(*   - the WebSocket connection hub    (app/routers/websocket.py)          *)
(*   - the live-violations query       (app/services/queries.py)           *)
(* Each subsystem has its own specification over its own variables; the    *)
(* variables of the other subsystems stay at their initial values.         *)
(***************************************************************************)
EXTENDS Integers, Sequences, FiniteSets, TLC

(***************************************************************************)
(* Bounds of the model.                                                    *)
(***************************************************************************)
NumReaders == 2
MaxTime == 2
MaxTTL == 2
MaxInst == 6
NumRestarters == 2
NumStarters == 2
NumWS == 2
NumBroadcasters == 2
MaxPoll == 2
MaxStopTasks == 2
MaxRows == 2
DbNow == 7200
MaxHours == 2

VARIABLES
    \* ---- cache (app/cache.py) ----
    now,          \* wall clock, in seconds
    redisData,    \* the Redis keyspace: key -> NoEntry or an entry
    rpc,          \* reader -> position inside get_or_set / get
    rkey,         \* reader -> key of the call in progress
    rttl,         \* reader -> ttl argument of the call in progress
    rresult,      \* reader -> the value func returned (held until set)
    lastRead,     \* the last value CacheManager.get handed to a caller
    \* ---- background task manager (app/services/background.py) ----
    is_running,   \* BackgroundTaskManager.is_running
    tasks,        \* BackgroundTaskManager.tasks: name -> task instance, 0 = no entry
    managers,     \* db_manager / cache_manager: "none", "open", "closed"
    iname,        \* task instance -> name of the coroutine it runs
    ist,          \* task instance -> "free", "new", "op", "sleep", "failed" (asleep
                  \* after a logged body error), "hung" (suspended in a call
                  \* that does not answer), "done", "cancelled"
    iop,          \* task instance -> index of the awaited call of the tick
    icancel,      \* task instance -> who requested cancellation ("no" if nobody)
    nextInst,     \* number of task instances created so far
    startPc,      \* caller of start() -> position
    stopPc,       \* position of the caller of stop()
    stopIdx,      \* stop(): index in tasks.items() of the task awaited
    stopWait,     \* stop(): task instance awaited
    rsPc,         \* caller of restart_task -> position
    rsName,       \* caller of restart_task -> task_name
    rsWait,       \* caller of restart_task -> task instance awaited
    \* ---- WebSocket hub (app/routers/websocket.py) ----
    violation_connections,  \* ConnectionManager.violation_connections
    dashboard_connections,  \* ConnectionManager.dashboard_connections
    all_connections,        \* ConnectionManager.all_connections
    is_polling,             \* ConnectionManager.is_polling
    polling_task,           \* ConnectionManager.polling_task, 0 = None
    pst,          \* polling task instance -> "free", "new", "fetch", "close", "sleep", "done"
    pcancel,      \* polling task instance -> cancellation requested
    nextPoll,     \* number of polling task instances created so far
    stopNew,      \* stop_polling tasks created by disconnect that have not run yet
    stopAwait,    \* polling task instances awaited by suspended stop_polling tasks
    hpc,          \* websocket -> position of its endpoint handler
    wsType,       \* websocket -> client_type of its endpoint
    client_state, \* websocket -> WebSocket.client_state
    wsBroken,     \* websocket -> its transport is broken: send_text raises
    wsInbox,      \* websocket -> camera of the last update_filter the client sent
    bpc,          \* /ws/broadcast request -> "idle", "sending", "done", "returned"
    bcam,         \* /ws/broadcast request -> camera of the violations in its data
    bsnap,        \* broadcast -> the copy of the group it iterates
    brem,         \* broadcast -> connections of the copy not yet visited
    bcur,         \* broadcast -> connection whose send_text is awaited, 0 = none
    bdisc,        \* broadcast -> its local set "disconnected"
    bdead,        \* broadcast -> connections found not CONNECTED or failing when visited
    bgot,         \* broadcast -> connections its message was delivered to
    \* ---- violation queries (app/services/queries.py) ----
    timeline,     \* rows of the timeline table
    result,       \* rows returned by the last get_live_violations
    qcamera,      \* camera argument of that call
    qhours,       \* hours argument of that call, 0 = no call since the last write
    qlimit,       \* limit argument of that call
    trend,        \* rows returned by the last get_hourly_trend
    thours,       \* hours argument of that call, 0 = no call since the last write
    tnow,         \* NOW() of that call, in tenths of a second
    \* ---- BackgroundTaskManager.get_task_status ----
    statusOut,    \* outcome of the last get_task_status call
    \* ---- peers of the WebSocket hub ----
    wsStalled,    \* websocket -> its client has stopped reading: a send_text
                  \* to it does not complete
    \* ---- _poll_violations ----
    last_check,   \* polling task instance -> its local last_check, 0 while the
                  \* task is not running
    \* ---- GET /api/violations/live (app/routers/violations.py) ----
    stored,       \* camera -> age in hours -> number of phone violations stored
    liveCache,    \* cache key of a live list -> NoEntry or the list cached
    served        \* the last response of the endpoint

cacheVars == <<now, redisData, rpc, rkey, rttl, rresult, lastRead>>

taskVars == <<is_running, tasks, managers, iname, ist, iop, icancel, nextInst,
              startPc, stopPc, stopIdx, stopWait, rsPc, rsName, rsWait>>

hubVars == <<violation_connections, dashboard_connections, all_connections,
             is_polling, polling_task, pst, pcancel, nextPoll, stopNew,
             stopAwait, hpc, wsType, client_state, wsBroken, wsInbox,
             bpc, bcam, bsnap, brem, bcur, bdisc, bdead, bgot>>

queryVars == <<timeline, result, qcamera, qhours, qlimit, trend, thours, tnow>>

liveVars == <<stored, liveCache, served>>

vars == <<cacheVars, taskVars, hubVars, queryVars, statusOut, wsStalled,
          last_check, liveVars>>

\* What the actions of one subsystem leave unchanged.
notCacheVars ==
    <<taskVars, hubVars, queryVars, statusOut, wsStalled, last_check, liveVars>>
notTaskVars ==
    <<cacheVars, hubVars, queryVars, statusOut, wsStalled, last_check, liveVars>>
notHubVars ==
    <<cacheVars, taskVars, queryVars, statusOut, wsStalled, last_check, liveVars>>
notQueryVars ==
    <<cacheVars, taskVars, hubVars, statusOut, wsStalled, last_check, liveVars>>
notLiveVars ==
    <<cacheVars, taskVars, hubVars, queryVars, statusOut, wsStalled, last_check>>

(***************************************************************************)
(* Cache layer: CacheManager over Redis, CacheUtils.get_or_set, @cached.   *)
(***************************************************************************)
Readers == 1..NumReaders
Keys == {"violations:live:50", "violations:hourly_trend:24"}
DefaultKey == "violations:live:50"
TTLChoices == 0..MaxTTL
None == -1
NoEntry == [present |-> FALSE]
NoExpiry == -1

\* json.dumps(value, default=str) as used by CacheManager.set: the stored
\* text of a value (None is stored as the text null, which loads as None).
JsonDumps(v) == [json |-> v]

\* json.loads as used by CacheManager.get.
JsonLoads(s) == s.json

\* Redis SETEX key ttl value / SET key value: SETEX records the expiry
\* instant, SET records none.
RedisSetex(data, key, ttl, text) ==
    [data EXCEPT ![key] = [present |-> TRUE, text |-> text, set_at |-> now,
                           ttl |-> ttl, expire_at |-> now + ttl]]

RedisSet(data, key, ttl, text) ==
    [data EXCEPT ![key] = [present |-> TRUE, text |-> text, set_at |-> now,
                           ttl |-> ttl, expire_at |-> NoExpiry]]

\* An entry Redis has not evicted yet although its expiry instant passed.
Expired(e) == e.present /\ e.expire_at # NoExpiry /\ now >= e.expire_at

\* Redis GET: an expired key reads as absent whether or not it was evicted.
RedisGet(key) ==
    IF redisData[key].present /\ ~Expired(redisData[key])
    THEN redisData[key].text
    ELSE JsonDumps(None)

\* CacheManager.set: "if ttl:" chooses SETEX, any falsy ttl (None or 0) SET.
CacheManagerSet(data, key, value, ttl) ==
    IF ttl # 0
    THEN RedisSetex(data, key, ttl, JsonDumps(value))
    ELSE RedisSet(data, key, ttl, JsonDumps(value))

\* CacheManager.get: "if value: return json.loads(value)" else None.
CacheManagerGet(key) ==
    IF RedisGet(key) # JsonDumps(None) THEN JsonLoads(RedisGet(key)) ELSE None

NoRead == [found |-> FALSE]

\* The trace of a read in which redis.get raised.
ErrorRead == [found |-> FALSE, error |-> TRUE]

\* A CacheManager.get that lets the exception of redis.get through.
CacheGetRaises == "raise"

\* CacheManager.get when redis.get raises: "except Exception" logs the
\* error and returns None, which the caller takes for a miss.
CacheGetOnError == "miss"

InitCache ==
    /\ now = 0
    /\ redisData = [k \in Keys |-> NoEntry]
    /\ rpc = [r \in Readers |-> "idle"]
    /\ rkey = [r \in Readers |-> DefaultKey]
    /\ rttl = [r \in Readers |-> 0]
    /\ rresult = [r \in Readers |-> None]
    /\ lastRead = NoRead

\* The clock advances.
Tick ==
    /\ now < MaxTime
    /\ now' = now + 1
    /\ UNCHANGED <<redisData, rpc, rkey, rttl, rresult, lastRead, notCacheVars>>

\* Redis evicts an expired key (active expiry cycle).
RedisEvict(k) ==
    /\ Expired(redisData[k])
    /\ redisData' = [redisData EXCEPT ![k] = NoEntry]
    /\ UNCHANGED <<now, rpc, rkey, rttl, rresult, lastRead, notCacheVars>>

\* A caller enters CacheUtils.get_or_set(key, func, ttl) (or a function
\* wrapped by @cached, whose wrapper has the same three steps) and suspends
\* in "await cache_manager.get(key)".
GetOrSetCall(r, k, ttl) ==
    /\ rpc[r] = "idle"
    /\ rpc' = [rpc EXCEPT ![r] = "get"]
    /\ rkey' = [rkey EXCEPT ![r] = k]
    /\ rttl' = [rttl EXCEPT ![r] = ttl]
    /\ UNCHANGED <<now, redisData, rresult, lastRead, notCacheVars>>

\* cache_manager.get answers.  A hit returns the cached value; on a miss the
\* caller starts executing func and suspends inside it.
GetOrSetGet(r) ==
    /\ rpc[r] = "get"
    /\ LET v == CacheManagerGet(rkey[r]) IN
       IF v # None
       THEN /\ rpc' = [rpc EXCEPT ![r] = "idle"]
            /\ rkey' = [rkey EXCEPT ![r] = DefaultKey]
            /\ rttl' = [rttl EXCEPT ![r] = 0]
            /\ lastRead' = [found |-> TRUE,
                            age |-> now - redisData[rkey[r]].set_at,
                            ttl |-> redisData[rkey[r]].ttl]
       ELSE /\ rpc' = [rpc EXCEPT ![r] = "func"]
            /\ lastRead' = NoRead
            /\ UNCHANGED <<rkey, rttl>>
    /\ UNCHANGED <<now, redisData, rresult, notCacheVars>>

\* The Redis backend fails during the read: redis.get raises inside
\* cache_manager.get.  With None returned the caller goes on as after a
\* miss; an exception would end the handler with an error response.
GetOrSetGetError(r) ==
    /\ rpc[r] = "get"
    /\ lastRead' = ErrorRead
    /\ IF CacheGetOnError = "miss"
       THEN /\ rpc' = [rpc EXCEPT ![r] = "func"]
            /\ UNCHANGED <<rkey, rttl>>
       ELSE /\ rpc' = [rpc EXCEPT ![r] = "idle"]
            /\ rkey' = [rkey EXCEPT ![r] = DefaultKey]
            /\ rttl' = [rttl EXCEPT ![r] = 0]
    /\ UNCHANGED <<now, redisData, rresult, notCacheVars>>

\* func returns its result (the data as of now); the caller suspends in
\* "await cache_manager.set(key, result, ttl)".
GetOrSetFunc(r) ==
    /\ rpc[r] = "func"
    /\ rpc' = [rpc EXCEPT ![r] = "set"]
    /\ rresult' = [rresult EXCEPT ![r] = now]
    /\ UNCHANGED <<now, redisData, rkey, rttl, lastRead, notCacheVars>>

\* cache_manager.set completes and get_or_set returns the result.
GetOrSetSet(r) ==
    /\ rpc[r] = "set"
    /\ redisData' = CacheManagerSet(redisData, rkey[r], rresult[r], rttl[r])
    /\ rpc' = [rpc EXCEPT ![r] = "idle"]
    /\ rkey' = [rkey EXCEPT ![r] = DefaultKey]
    /\ rttl' = [rttl EXCEPT ![r] = 0]
    /\ rresult' = [rresult EXCEPT ![r] = None]
    /\ UNCHANGED <<now, lastRead, notCacheVars>>

NextCache ==
    \/ Tick
    \/ \E k \in Keys : RedisEvict(k)
    \/ \E r \in Readers, k \in Keys, ttl \in TTLChoices : GetOrSetCall(r, k, ttl)
    \/ \E r \in Readers : GetOrSetGet(r)
    \/ \E r \in Readers : GetOrSetGetError(r)
    \/ \E r \in Readers : GetOrSetFunc(r)
    \/ \E r \in Readers : GetOrSetSet(r)

(***************************************************************************)
(* Background task manager: BackgroundTaskManager and its four loops.      *)
(* A task instance is an asyncio.Task.  Every action is the run of one     *)
(* coroutine from one suspension point (await) to the next.                *)
(***************************************************************************)
Restarters == 1..NumRestarters
Starters == 1..NumStarters

\* tasks.items() iterates in insertion order, the order start() fills it.
TaskOrder == <<"violation_polling", "stats_refresh", "cache_cleanup", "health_check">>
TaskNames == {TaskOrder[k] : k \in 1..Len(TaskOrder)}

\* Task instances: start() and restart_task are called while fewer than
\* MaxInst instances exist; every further start() that has passed its check
\* by then creates its four tasks as well.
InstIds == 1..(MaxInst + Len(TaskOrder) * (NumStarters - 1))

\* The awaited calls of one tick of each loop, in order: "db" is a store
\* query that raises on failure, "db_soft" a store call whose failure is
\* handled inside the tick, "cache" a CacheManager call (which never
\* raises), "raises" a call after which the body always raises (the cleanup
\* body calls get_past_timestamp, a name that is not defined).
BodyOps(name) ==
    CASE name = "violation_polling" -> <<"db", "cache", "db", "cache">>
      [] name = "stats_refresh" ->
             <<"db", "cache", "db_soft", "cache", "cache", "db", "cache">>
      [] name = "cache_cleanup" -> <<"raises">>
      [] name = "health_check" -> <<"db_soft", "cache", "cache">>

\* The cache key that the k-th call of a tick writes or, for a query, feeds;
\* NoKey for the keys that are not modelled.
NoKey == "none"
TickKey(name, k) ==
    IF name = "violation_polling"
    THEN (IF k <= 2 THEN "violations:live:50" ELSE "violations:hourly_trend:24")
    ELSE NoKey

\* A handler that deletes the key fed by the failed query.
DeleteAfterQueryError(data, key) ==
    IF key \in Keys THEN [data EXCEPT ![key] = NoEntry] ELSE data

\* What "except Exception" of a loop does to the cache after a failed
\* query: it logs the error, the cache is as before.
CacheAfterQueryError(data, key) == data

\* command_timeout of the asyncpg pool, in seconds: a query that has not
\* answered by then raises TimeoutError.
CommandTimeout == 60

\* The time after which an awaited call of a tick that does not answer
\* raises, None when nothing bounds it: the store calls run on the pool
\* created with command_timeout; the Redis pool is created without a socket
\* timeout and no call of a body is wrapped in asyncio.wait_for.
CallTimeout(kind) ==
    IF kind \in {"db", "db_soft"} THEN CommandTimeout ELSE None

\* The sleep of each loop, in seconds (settings.background_*_interval).
Interval(name) ==
    CASE name = "violation_polling" -> 30
      [] name = "stats_refresh" -> 300
      [] name = "cache_cleanup" -> 3600
      [] name = "health_check" -> 60

\* A loop that an exception of its body ends.
EndAfterBodyError == "done"

\* The state in which a loop sleeps after its body raised.
AfterBodyError == "failed"

InitTasks ==
    /\ is_running = FALSE
    /\ tasks = [n \in TaskNames |-> 0]
    /\ managers = "none"
    /\ iname = [i \in InstIds |-> "violation_polling"]
    /\ ist = [i \in InstIds |-> "free"]
    /\ iop = [i \in InstIds |-> 0]
    /\ icancel = [i \in InstIds |-> "no"]
    /\ nextInst = 0
    /\ startPc = [s \in Starters |-> "idle"]
    /\ stopPc = "idle"
    /\ stopIdx = 0
    /\ stopWait = 0
    /\ rsPc = [r \in Restarters |-> "idle"]
    /\ rsName = [r \in Restarters |-> "violation_polling"]
    /\ rsWait = [r \in Restarters |-> 0]

\* Task.done()
Done(i) == ist[i] \in {"done", "cancelled"}

\* A live task instance: created and not finished.
Live(i) == ist[i] \in {"new", "op", "sleep", "failed", "hung"}

\* Task.cancel(): request cancellation of a task that is not done; the
\* CancelledError is delivered when the task next runs.
Cancel(ic, i, who) ==
    IF ic[i] = "no" /\ ~Done(i) THEN [ic EXCEPT ![i] = who] ELSE ic

\* "while self.is_running:" at the top of a loop: start the tick's first
\* awaited call, or leave the loop and finish.
LoopHead(i) ==
    IF is_running
    THEN /\ ist' = [ist EXCEPT ![i] = "op"]
         /\ iop' = [iop EXCEPT ![i] = 1]
    ELSE /\ ist' = [ist EXCEPT ![i] = "done"]
         /\ iop' = [iop EXCEPT ![i] = 0]

\* The awaited call k of a tick of `name` returns: a CacheManager.set of a
\* modelled key stores the data as of now with the TTL of the settings.
TickCacheWrite(name, k) ==
    IF BodyOps(name)[k] = "cache" /\ TickKey(name, k) \in Keys
    THEN CacheManagerSet(redisData, TickKey(name, k), now, MaxTTL)
    ELSE redisData

\* A task instance runs from its suspension point to the next one.  A
\* pending cancellation raises CancelledError at the suspension point; the
\* loops catch Exception only, so the task ends there, cancelled.  A call
\* that does not answer is left only through cancellation or through its
\* timeout, when it has one: the TimeoutError of a store query goes to
\* "except Exception" of the loop, that of a store call handled inside the
\* tick lets the tick go on.
TaskRun(i) ==
    /\ Live(i)
    /\ IF icancel[i] # "no"
       THEN /\ ist' = [ist EXCEPT ![i] = "cancelled"]
            /\ iop' = [iop EXCEPT ![i] = 0]
            /\ icancel' = [icancel EXCEPT ![i] = "no"]
            /\ UNCHANGED redisData
       ELSE /\ UNCHANGED icancel
            /\ CASE ist[i] = "new" -> LoopHead(i) /\ UNCHANGED redisData
              [] ist[i] \in {"sleep", "failed"} ->
                   LoopHead(i) /\ UNCHANGED redisData
              [] ist[i] = "op" ->
                   IF BodyOps(iname[i])[iop[i]] = "raises"
                   THEN /\ ist' = [ist EXCEPT ![i] = AfterBodyError]
                        /\ iop' = [iop EXCEPT ![i] = 0]
                        /\ UNCHANGED redisData
                   ELSE /\ redisData' = TickCacheWrite(iname[i], iop[i])
                        /\ IF iop[i] < Len(BodyOps(iname[i]))
                           THEN /\ iop' = [iop EXCEPT ![i] = iop[i] + 1]
                                /\ UNCHANGED ist
                           ELSE /\ ist' = [ist EXCEPT ![i] = "sleep"]
                                /\ iop' = [iop EXCEPT ![i] = 0]
              [] ist[i] = "hung" ->
                   /\ CallTimeout(BodyOps(iname[i])[iop[i]]) # None
                   /\ UNCHANGED redisData
                   /\ IF BodyOps(iname[i])[iop[i]] = "db"
                      THEN /\ ist' = [ist EXCEPT ![i] = AfterBodyError]
                           /\ iop' = [iop EXCEPT ![i] = 0]
                      ELSE /\ ist' = [ist EXCEPT ![i] = "op"]
                           /\ iop' = [iop EXCEPT ![i] = iop[i] + 1]
    /\ UNCHANGED <<is_running, tasks, managers, iname, nextInst,
                   startPc, stopPc, stopIdx, stopWait, rsPc, rsName, rsWait>>
    /\ UNCHANGED <<now, rpc, rkey, rttl, rresult, lastRead>>
    /\ UNCHANGED <<hubVars, queryVars, statusOut, wsStalled, last_check,
                   liveVars>>

\* The awaited store query of a tick raises: "except Exception" logs it and
\* the loop goes to its sleep.
TaskFail(i) ==
    /\ ist[i] = "op"
    /\ icancel[i] = "no"
    /\ BodyOps(iname[i])[iop[i]] = "db"
    /\ ist' = [ist EXCEPT ![i] = AfterBodyError]
    /\ iop' = [iop EXCEPT ![i] = 0]
    /\ redisData' = CacheAfterQueryError(redisData, TickKey(iname[i], iop[i]))
    /\ UNCHANGED <<is_running, tasks, managers, iname, icancel, nextInst,
                   startPc, stopPc, stopIdx, stopWait, rsPc, rsName, rsWait>>
    /\ UNCHANGED <<now, rpc, rkey, rttl, rresult, lastRead>>
    /\ UNCHANGED <<hubVars, queryVars, statusOut, wsStalled, last_check,
                   liveVars>>

\* The dependency behind the awaited call of a tick stops answering: the
\* task stays suspended in that call.
TaskStall(i) ==
    /\ ist[i] = "op"
    /\ icancel[i] = "no"
    /\ BodyOps(iname[i])[iop[i]] # "raises"
    /\ ist' = [ist EXCEPT ![i] = "hung"]
    /\ UNCHANGED <<is_running, tasks, managers, iname, iop, icancel, nextInst,
                   startPc, stopPc, stopIdx, stopWait, rsPc, rsName, rsWait>>
    /\ UNCHANGED notTaskVars

\* asyncio.create_task for the loop of `name`: the next free instance.
CreateTask(name) ==
    /\ iname' = [iname EXCEPT ![nextInst + 1] = name]
    /\ ist' = [ist EXCEPT ![nextInst + 1] = "new"]
    /\ nextInst' = nextInst + 1

\* start(): returns at once when already running; otherwise creates the
\* managers and suspends in their initialize().
StartCall(s) ==
    /\ startPc[s] = "idle"
    /\ ~is_running
    /\ nextInst + Len(TaskOrder) <= MaxInst
    /\ startPc' = [startPc EXCEPT ![s] = "init"]
    /\ managers' = "open"
    /\ UNCHANGED <<is_running, tasks, iname, ist, iop, icancel, nextInst,
                   stopPc, stopIdx, stopWait, rsPc, rsName, rsWait>>
    /\ UNCHANGED notTaskVars

\* start() after the managers are initialized: sets is_running and creates
\* the four tasks.
StartCreate(s) ==
    /\ startPc[s] = "init"
    /\ startPc' = [startPc EXCEPT ![s] = "idle"]
    /\ is_running' = TRUE
    /\ tasks' = [n \in TaskNames |->
                    nextInst + (CHOOSE k \in 1..Len(TaskOrder) : TaskOrder[k] = n)]
    /\ iname' = [i \in InstIds |->
                    IF i \in (nextInst + 1)..(nextInst + Len(TaskOrder))
                    THEN TaskOrder[i - nextInst] ELSE iname[i]]
    /\ ist' = [i \in InstIds |->
                    IF i \in (nextInst + 1)..(nextInst + Len(TaskOrder))
                    THEN "new" ELSE ist[i]]
    /\ nextInst' = nextInst + Len(TaskOrder)
    /\ UNCHANGED <<managers, iop, icancel, stopPc, stopIdx, stopWait,
                   rsPc, rsName, rsWait>>
    /\ UNCHANGED notTaskVars

\* restart_task(task_name) up to its first suspension (for a name not in
\* tasks it raises ValueError and changes nothing): a task that is not done
\* is cancelled and awaited; a task that is done is replaced at once.
RestartCall(r, name) ==
    /\ rsPc[r] = "idle"
    /\ nextInst < MaxInst
    /\ tasks[name] # 0
    /\ IF ~Done(tasks[name])
       THEN /\ icancel' = Cancel(icancel, tasks[name], "restart")
            /\ rsPc' = [rsPc EXCEPT ![r] = "await"]
            /\ rsName' = [rsName EXCEPT ![r] = name]
            /\ rsWait' = [rsWait EXCEPT ![r] = tasks[name]]
            /\ UNCHANGED <<tasks, iname, ist, nextInst>>
       ELSE /\ CreateTask(name)
            /\ tasks' = [tasks EXCEPT ![name] = nextInst + 1]
            /\ rsPc' = [rsPc EXCEPT ![r] = "done"]
            /\ UNCHANGED <<icancel, rsName, rsWait>>
    /\ UNCHANGED <<is_running, managers, iop, startPc, stopPc, stopIdx, stopWait>>
    /\ UNCHANGED notTaskVars

\* restart_task resumes when the awaited task has finished and creates the
\* new task under the same name.
RestartResume(r) ==
    /\ rsPc[r] = "await"
    /\ Done(rsWait[r])
    /\ nextInst < MaxInst
    /\ CreateTask(rsName[r])
    /\ tasks' = [tasks EXCEPT ![rsName[r]] = nextInst + 1]
    /\ rsPc' = [rsPc EXCEPT ![r] = "done"]
    /\ rsWait' = [rsWait EXCEPT ![r] = 0]
    /\ rsName' = [rsName EXCEPT ![r] = "violation_polling"]
    /\ UNCHANGED <<is_running, managers, iop, icancel, startPc, stopPc,
                   stopIdx, stopWait>>
    /\ UNCHANGED notTaskVars

\* stop(): the index of the first entry of tasks.items() at or after k whose
\* task is not done, or Len(TaskOrder) + 1 when there is none.
NextNotDone(k) ==
    LET S == {j \in k..Len(TaskOrder) :
                 tasks[TaskOrder[j]] # 0 /\ ~Done(tasks[TaskOrder[j]])}
    IN IF S = {} THEN Len(TaskOrder) + 1
       ELSE CHOOSE j \in S : \A j2 \in S : j <= j2

\* stop() from position k of its loop to its next suspension: cancel and
\* await the next task that is not done, or clear tasks and close the
\* managers.
StopFrom(k) ==
    LET j == NextNotDone(k) IN
    IF j <= Len(TaskOrder)
    THEN /\ icancel' = Cancel(icancel, tasks[TaskOrder[j]], "stop")
         /\ stopPc' = "await"
         /\ stopIdx' = j
         /\ stopWait' = tasks[TaskOrder[j]]
         /\ UNCHANGED <<tasks, managers>>
    ELSE /\ tasks' = [n \in TaskNames |-> 0]
         /\ stopPc' = "close"
         /\ stopIdx' = 0
         /\ stopWait' = 0
         /\ UNCHANGED <<icancel, managers>>

\* stop(): returns at once when not running; otherwise clears is_running and
\* starts cancelling.
StopCall ==
    /\ stopPc = "idle"
    /\ is_running
    /\ is_running' = FALSE
    /\ StopFrom(1)
    /\ UNCHANGED <<iname, ist, iop, nextInst, startPc, rsPc, rsName, rsWait>>
    /\ UNCHANGED notTaskVars

\* stop() resumes when the awaited task has finished.
StopResume ==
    /\ stopPc = "await"
    /\ Done(stopWait)
    /\ StopFrom(stopIdx + 1)
    /\ UNCHANGED <<is_running, iname, ist, iop, nextInst, startPc,
                   rsPc, rsName, rsWait>>
    /\ UNCHANGED notTaskVars

\* stop(): the managers are closed and stop() returns.
StopClose ==
    /\ stopPc = "close"
    /\ stopPc' = "idle"
    /\ managers' = "closed"
    /\ UNCHANGED <<is_running, tasks, iname, ist, iop, icancel, nextInst,
                   startPc, stopIdx, stopWait, rsPc, rsName, rsWait>>
    /\ UNCHANGED notTaskVars

\* Task.exception() of a tracked task, as get_task_status calls it
\* ("task.exception() if task.done() and task.exception()"): a finished
\* loop has no exception, and for a cancelled task the call itself raises
\* CancelledError.
TaskExceptionRaises(n) == tasks[n] # 0 /\ ist[tasks[n]] = "cancelled"

\* get_task_status(): builds an entry for every tracked task without
\* suspending; it returns the status or the exception goes to its caller.
GetTaskStatus ==
    /\ statusOut' = IF \E n \in TaskNames : TaskExceptionRaises(n)
                    THEN "raised" ELSE "returned"
    /\ UNCHANGED <<taskVars, cacheVars, hubVars, queryVars, wsStalled,
                   last_check, liveVars>>

NextTasks ==
    \/ \E i \in InstIds : TaskRun(i)
    \/ \E i \in InstIds : TaskFail(i)
    \/ StartCall(1)
    \/ StartCreate(1)
    \/ \E r \in Restarters, n \in TaskNames : RestartCall(r, n)
    \/ \E r \in Restarters : RestartResume(r)
    \/ StopCall
    \/ StopResume
    \/ StopClose

(***************************************************************************)
(* WebSocket hub: ConnectionManager, the two websocket endpoints and the   *)
(* POST /ws/broadcast endpoint.                                            *)
(***************************************************************************)
WS == 1..NumWS
Broadcasters == 1..NumBroadcasters
PollIds == 1..MaxPoll
ClientTypes == {"violations", "dashboard"}
Cameras == {"employees_01", "employees_02"}
NoFilter == "none"

\* WebSocketMessage has three required fields (type, data, timestamp): the
\* constructor raises ValidationError unless all three are given.
WebSocketMessageValid(hasType, hasData, hasTimestamp) ==
    hasType /\ hasData /\ hasTimestamp

InitHub ==
    /\ violation_connections = {}
    /\ dashboard_connections = {}
    /\ all_connections = {}
    /\ is_polling = FALSE
    /\ polling_task = 0
    /\ pst = [p \in PollIds |-> "free"]
    /\ pcancel = [p \in PollIds |-> FALSE]
    /\ nextPoll = 0
    /\ stopNew = 0
    /\ stopAwait = {}
    /\ hpc = [c \in WS |-> "none"]
    /\ wsType = [c \in WS |-> "dashboard"]
    /\ client_state = [c \in WS |-> "CONNECTING"]
    /\ wsBroken = [c \in WS |-> FALSE]
    /\ wsInbox = [c \in WS |-> NoFilter]
    /\ bpc = [b \in Broadcasters |-> "idle"]
    /\ bcam = [b \in Broadcasters |-> "employees_01"]
    /\ bsnap = [b \in Broadcasters |-> {}]
    /\ brem = [b \in Broadcasters |-> {}]
    /\ bcur = [b \in Broadcasters |-> 0]
    /\ bdisc = [b \in Broadcasters |-> {}]
    /\ bdead = [b \in Broadcasters |-> {}]
    /\ bgot = [b \in Broadcasters |-> {}]

\* A polling task that exists and has not finished.
PollLive(p) == pst[p] \in {"new", "fetch", "sleep"}

\* start_polling(): nothing when is_polling; otherwise sets is_polling and
\* creates the task running _poll_violations.
StartPolling ==
    IF is_polling
    THEN UNCHANGED <<is_polling, polling_task, pst, nextPoll>>
    ELSE /\ is_polling' = TRUE
         /\ polling_task' = nextPoll + 1
         /\ pst' = [pst EXCEPT ![nextPoll + 1] = "new"]
         /\ nextPoll' = nextPoll + 1

\* A disconnect that leaves the connection in all_connections.
DisconnectGroupsOnly(D) ==
    <<violation_connections \ D, dashboard_connections \ D, all_connections>>

\* A disconnect that is not idempotent: it removes a registered connection
\* from all_connections and puts an unregistered one back.
DisconnectToggles(D) ==
    <<violation_connections \ D, dashboard_connections \ D,
      (all_connections \ D) \cup (D \ all_connections)>>

\* disconnect(websocket) applied to the three sets S = <<violation, dashboard,
\* all>>: discards the connections D from each of them; the result, and
\* whether it schedules a stop_polling task (all_connections empty and
\* is_polling).
DisconnectSets(D) ==
    <<violation_connections \ D, dashboard_connections \ D, all_connections \ D>>

\* The stop_polling tasks that disconnect creates when it is called, one
\* connection after the other, for the connections of the sequence ds:
\* one for every call that leaves all_connections empty while is_polling.
RECURSIVE StopTasksCreated(_, _)
StopTasksCreated(ds, reg) ==
    IF ds = <<>> THEN 0
    ELSE (IF reg \ {Head(ds)} = {} /\ is_polling THEN 1 ELSE 0)
         + StopTasksCreated(Tail(ds), reg \ {Head(ds)})

\* The orders in which a Python set can be iterated.
Orders(S) ==
    {q \in [1..Cardinality(S) -> S] : \A a, b \in 1..Cardinality(S) :
                                         q[a] = q[b] => a = b}

\* disconnect called for each connection of D in turn, in some order.
Disconnect(D) ==
    /\ violation_connections' = DisconnectSets(D)[1]
    /\ dashboard_connections' = DisconnectSets(D)[2]
    /\ all_connections' = DisconnectSets(D)[3]
    /\ \E q \in Orders(D) :
          stopNew' = stopNew + StopTasksCreated(q, all_connections)
    /\ stopNew' <= MaxStopTasks

\* The endpoint handler of a new websocket calls manager.connect and
\* suspends in "await websocket.accept()".  Websockets are numbered in the
\* order in which their handlers start.
ConnectBegin(c, type) ==
    /\ hpc[c] = "none"
    /\ \A d \in 1..(c - 1) : hpc[d] # "none"
    /\ hpc' = [hpc EXCEPT ![c] = "accept"]
    /\ wsType' = [wsType EXCEPT ![c] = type]
    /\ UNCHANGED <<violation_connections, dashboard_connections,
                   all_connections, is_polling, polling_task, pst, pcancel,
                   nextPoll, stopNew, stopAwait, client_state, wsBroken,
                   wsInbox, bpc, bcam, bsnap, brem, bcur, bdisc, bdead, bgot>>
    /\ UNCHANGED notHubVars

\* connect after accept(): the connection is added to its group and to
\* all_connections; polling is started when is_polling is false.  The
\* handler then suspends in the queries for its initial data.
ConnectAccept(c) ==
    /\ hpc[c] = "accept"
    /\ is_polling \/ nextPoll < MaxPoll
    /\ hpc' = [hpc EXCEPT ![c] = "initial"]
    /\ client_state' = [client_state EXCEPT ![c] = "CONNECTED"]
    /\ IF wsType[c] = "violations"
       THEN /\ violation_connections' = violation_connections \cup {c}
            /\ UNCHANGED dashboard_connections
       ELSE /\ dashboard_connections' = dashboard_connections \cup {c}
            /\ UNCHANGED violation_connections
    /\ all_connections' = all_connections \cup {c}
    /\ StartPolling
    /\ UNCHANGED <<pcancel, stopNew, stopAwait, wsType, wsBroken, wsInbox,
                   bpc, bcam, bsnap, brem, bcur, bdisc, bdead, bgot>>
    /\ UNCHANGED notHubVars

\* The handler after its initial queries: it builds the initial message as
\* WebSocketMessage(type=..., data=...) without a timestamp, the constructor
\* raises, the handler logs the error and its finally clause calls
\* manager.disconnect.  The endpoint returns and the server closes the
\* socket: its pending client messages are dropped and later sends raise.
HandlerInitial(c) ==
    /\ hpc[c] = "initial"
    /\ ~WebSocketMessageValid(TRUE, TRUE, FALSE)
    /\ hpc' = [hpc EXCEPT ![c] = "ended"]
    /\ Disconnect({c})
    /\ wsBroken' = [wsBroken EXCEPT ![c] = TRUE]
    /\ wsInbox' = [wsInbox EXCEPT ![c] = NoFilter]
    /\ UNCHANGED <<is_polling, polling_task, pst, pcancel, nextPoll,
                   stopAwait, wsType, client_state,
                   bpc, bcam, bsnap, brem, bcur, bdisc, bdead, bgot>>
    /\ UNCHANGED notHubVars

\* The client of an open violations websocket sends an update_filter message
\* naming a camera.
ClientUpdateFilter(c, cam) ==
    /\ hpc[c] = "initial"
    /\ wsType[c] = "violations"
    /\ wsInbox[c] = NoFilter
    /\ wsInbox' = [wsInbox EXCEPT ![c] = cam]
    /\ UNCHANGED <<violation_connections, dashboard_connections,
                   all_connections, is_polling, polling_task, pst, pcancel,
                   nextPoll, stopNew, stopAwait, hpc, wsType, client_state,
                   wsBroken, bpc, bcam, bsnap, brem, bcur, bdisc, bdead, bgot>>
    /\ UNCHANGED notHubVars

\* The peer goes away: the websocket's client_state becomes DISCONNECTED
\* and nothing can be sent to it any more.
ClientGone(c) ==
    /\ hpc[c] = "initial"
    /\ client_state[c] = "CONNECTED"
    /\ client_state' = [client_state EXCEPT ![c] = "DISCONNECTED"]
    /\ wsBroken' = [wsBroken EXCEPT ![c] = TRUE]
    /\ UNCHANGED <<violation_connections, dashboard_connections,
                   all_connections, is_polling, polling_task, pst, pcancel,
                   nextPoll, stopNew, stopAwait, hpc, wsType,
                   wsInbox, bpc, bcam, bsnap, brem, bcur, bdisc, bdead, bgot>>
    /\ UNCHANGED notHubVars

\* The transport of an accepted websocket breaks: send_text raises from now on.
TransportBreaks(c) ==
    /\ hpc[c] = "initial"
    /\ ~wsBroken[c]
    /\ wsBroken' = [wsBroken EXCEPT ![c] = TRUE]
    /\ UNCHANGED <<violation_connections, dashboard_connections,
                   all_connections, is_polling, polling_task, pst, pcancel,
                   nextPoll, stopNew, stopAwait, hpc, wsType, client_state,
                   wsInbox, bpc, bcam, bsnap, brem, bcur, bdisc, bdead, bgot>>
    /\ UNCHANGED notHubVars

\* A stop_polling that leaves the polling task running.
KeepPolling(pc, p) == pc

\* polling_task.cancel(): cancellation of polling task p is requested.
CancelPolling(pc, p) == [pc EXCEPT ![p] = TRUE]

\* A stop_polling task created by disconnect runs: nothing when is_polling
\* is false; otherwise it clears is_polling, cancels the polling task and
\* awaits it (an await of a finished task returns at once).
StopPollingRun ==
    /\ stopNew > 0
    /\ stopNew' = stopNew - 1
    /\ IF ~is_polling
       THEN UNCHANGED <<is_polling, pcancel, stopAwait>>
       ELSE /\ is_polling' = FALSE
            /\ IF polling_task # 0 /\ pst[polling_task] # "done"
               THEN /\ pcancel' = CancelPolling(pcancel, polling_task)
                    /\ stopAwait' = stopAwait \cup {polling_task}
               ELSE UNCHANGED <<pcancel, stopAwait>>
    /\ UNCHANGED <<violation_connections, dashboard_connections,
                   all_connections, polling_task, pst, nextPoll, hpc, wsType,
                   client_state, wsBroken, wsInbox, bpc, bcam,
                   bsnap, brem, bcur, bdisc, bdead, bgot>>
    /\ UNCHANGED notHubVars

\* The stop_polling tasks awaiting a polling task resume when it has finished.
StopPollingResume(p) ==
    /\ p \in stopAwait
    /\ pst[p] = "done"
    /\ stopAwait' = stopAwait \ {p}
    /\ UNCHANGED <<violation_connections, dashboard_connections,
                   all_connections, is_polling, polling_task, pst, pcancel,
                   nextPoll, stopNew, hpc, wsType, client_state, wsBroken,
                   wsInbox, bpc, bcam, bsnap, brem, bcur, bdisc, bdead, bgot>>
    /\ UNCHANGED notHubVars

\* hours * 3600 in the queries of ViolationQueries.
SecondsPerHour == 3600

\* get_current_timestamp() of the application: the time of the store's
\* NOW() at the start plus the seconds elapsed since.
CurrentTimestamp == DbNow + now

\* The violations of a poll tick that are newer than last_check: the rows
\* of get_live_violations(hours=1, limit=100) with timestamp > last_check.
NewViolations(p) ==
    {v \in timeline :
        /\ v.label = "cell phone"
        /\ v.timestamp > DbNow - SecondsPerHour
        /\ v.timestamp > last_check[p]}

\* "while self.is_polling:" of _poll_violations; the locals of a task that
\* returns are gone.
PollLoopHead(p) ==
    IF is_polling
    THEN /\ pst' = [pst EXCEPT ![p] = "fetch"]
         /\ UNCHANGED last_check
    ELSE /\ pst' = [pst EXCEPT ![p] = "done"]
         /\ last_check' = [last_check EXCEPT ![p] = 0]

\* The polling task runs from one suspension point to the next.  It first
\* sets last_check to the current time.  When the query of a tick returns
\* violations newer than last_check the task builds
\* WebSocketMessage(type=..., data=...) without a timestamp, the constructor
\* raises, and "except Exception" sends the loop to its sleep without a
\* broadcast and without the assignment to last_check; with no new
\* violation the task assigns last_check and goes to its sleep.
PollRun(p) ==
    /\ PollLive(p)
    /\ IF pcancel[p]
       THEN /\ pst' = [pst EXCEPT ![p] = "done"]
            /\ pcancel' = [pcancel EXCEPT ![p] = FALSE]
            /\ last_check' = [last_check EXCEPT ![p] = 0]
       ELSE /\ UNCHANGED pcancel
            /\ CASE pst[p] = "new" ->
                      IF is_polling
                      THEN /\ pst' = [pst EXCEPT ![p] = "fetch"]
                           /\ last_check' =
                                 [last_check EXCEPT ![p] = CurrentTimestamp]
                      ELSE PollLoopHead(p)
                 [] pst[p] = "sleep" -> PollLoopHead(p)
                 [] pst[p] = "fetch" ->
                      IF NewViolations(p) # {}
                      THEN /\ ~WebSocketMessageValid(TRUE, TRUE, FALSE)
                           /\ pst' = [pst EXCEPT ![p] = "sleep"]
                           /\ UNCHANGED last_check
                      ELSE /\ pst' = [pst EXCEPT ![p] = "sleep"]
                           /\ last_check' =
                                 [last_check EXCEPT ![p] = CurrentTimestamp]
    /\ UNCHANGED <<violation_connections, dashboard_connections,
                   all_connections, is_polling, polling_task, nextPoll,
                   stopNew, stopAwait, hpc, wsType, client_state, wsBroken,
                   wsInbox, bpc, bcam, bsnap, brem, bcur, bdisc, bdead, bgot>>
    /\ UNCHANGED <<cacheVars, taskVars, queryVars, statusOut, wsStalled,
                   liveVars>>

\* A connection to which a message can be delivered.
LiveConn(c) == client_state[c] = "CONNECTED" /\ ~wsBroken[c]

\* broadcast_to_violations from the connections R still to visit, with the
\* local set disc, up to its next suspension: the loop visits connections
\* that are not CONNECTED without suspending (they join "disconnected") and
\* suspends in send_text for the first CONNECTED one, c; after the last
\* connection it calls disconnect for every member of "disconnected".
BroadcastLoop(b, R, disc, dead) ==
    LET gone == {c \in R : client_state[c] # "CONNECTED"} IN
    \/ \E c \in R \ gone, D \in SUBSET gone :
          /\ bpc' = [bpc EXCEPT ![b] = "sending"]
          /\ bcur' = [bcur EXCEPT ![b] = c]
          /\ brem' = [brem EXCEPT ![b] = R \ (D \cup {c})]
          /\ bdisc' = [bdisc EXCEPT ![b] = disc \cup D]
          /\ bdead' = [bdead EXCEPT ![b] = dead \cup D]
          /\ UNCHANGED <<violation_connections, dashboard_connections,
                         all_connections, stopNew>>
    \/ /\ R = gone
       /\ bpc' = [bpc EXCEPT ![b] = "done"]
       /\ bcur' = [bcur EXCEPT ![b] = 0]
       /\ brem' = [brem EXCEPT ![b] = {}]
       /\ bdisc' = [bdisc EXCEPT ![b] = disc \cup R]
       /\ bdead' = [bdead EXCEPT ![b] = dead \cup gone]
       /\ Disconnect(disc \cup R)

\* POST /ws/broadcast with target "violations": the message is built with a
\* timestamp, so it is valid, and broadcast_to_violations starts: it returns
\* at once for an empty group, otherwise it iterates a copy of the group.
\* Requests are numbered in the order in which they arrive.
BroadcastCall(b, cam) ==
    /\ bpc[b] = "idle"
    /\ \A d \in 1..(b - 1) : bpc[d] # "idle"
    /\ WebSocketMessageValid(TRUE, TRUE, TRUE)
    /\ violation_connections # {}
    /\ bcam' = [bcam EXCEPT ![b] = cam]
    /\ bsnap' = [bsnap EXCEPT ![b] = violation_connections]
    /\ BroadcastLoop(b, violation_connections, {}, {})
    /\ UNCHANGED <<is_polling, polling_task, pst, pcancel, nextPoll,
                   stopAwait, hpc, wsType, client_state, wsBroken, wsInbox,
                   bgot>>
    /\ UNCHANGED notHubVars

\* send_text raises for a websocket whose transport is broken.
SendRaises(c) == wsBroken[c]

\* A loop that stops at the first exception, leaving the rest unvisited.
BreakAfterError(R) == {}

\* "except Exception" lies inside the for loop: after an exception the loop
\* goes on with the connections R it has not visited yet.
ContinueAfterError(R) == R

\* The client of an open websocket stops reading while its connection
\* stays up: data sent to it is not taken and send_text does not complete.
ClientStalls(c) ==
    /\ hpc[c] = "initial"
    /\ ~wsStalled[c]
    /\ wsStalled' = [wsStalled EXCEPT ![c] = TRUE]
    /\ UNCHANGED <<cacheVars, taskVars, hubVars, queryVars, statusOut,
                   last_check, liveVars>>

\* The awaited send_text returns or raises; an exception puts the
\* connection into "disconnected" and the loop goes on.  The message
\* reaches the client exactly when the transport is not broken.  The
\* broadcast awaits each send_text in turn: it resumes only when the send
\* to the connection it is visiting has completed.
BroadcastSendDone(b) ==
    /\ bpc[b] = "sending"
    /\ ~wsStalled[bcur[b]]
    /\ LET c == bcur[b] 
           dead == IF wsBroken[c] THEN bdead[b] \cup {c} ELSE bdead[b] IN
       /\ bgot' = [bgot EXCEPT ![b] =
                      IF wsBroken[c] THEN bgot[b] ELSE bgot[b] \cup {c}]
       /\ IF SendRaises(c)
          THEN BroadcastLoop(b, ContinueAfterError(brem[b]),
                             bdisc[b] \cup {c}, dead)
          ELSE BroadcastLoop(b, brem[b], bdisc[b], dead)
    /\ UNCHANGED <<is_polling, polling_task, pst, pcancel, nextPoll,
                   stopAwait, hpc, wsType, client_state, wsBroken, wsInbox,
                   bcam, bsnap>>
    /\ UNCHANGED notHubVars

\* broadcast_to_violations has returned and the endpoint answers.
BroadcastReturn(b) ==
    /\ bpc[b] = "done"
    /\ bpc' = [bpc EXCEPT ![b] = "returned"]
    /\ bcam' = [bcam EXCEPT ![b] = "employees_01"]
    /\ bsnap' = [bsnap EXCEPT ![b] = {}]
    /\ bdisc' = [bdisc EXCEPT ![b] = {}]
    /\ bdead' = [bdead EXCEPT ![b] = {}]
    /\ bgot' = [bgot EXCEPT ![b] = {}]
    /\ UNCHANGED <<violation_connections, dashboard_connections,
                   all_connections, is_polling, polling_task, pst, pcancel,
                   nextPoll, stopNew, stopAwait, hpc, wsType, client_state,
                   wsBroken, wsInbox, brem, bcur>>
    /\ UNCHANGED notHubVars

NextHub ==
    \/ \E c \in WS, t \in ClientTypes : ConnectBegin(c, t)
    \/ \E c \in WS : ConnectAccept(c)
    \/ \E c \in WS : HandlerInitial(c)
    \/ \E c \in WS, cam \in Cameras : ClientUpdateFilter(c, cam)
    \/ \E c \in WS : ClientGone(c)
    \/ \E c \in WS : TransportBreaks(c)
    \/ StopPollingRun
    \/ \E p \in PollIds : StopPollingResume(p)
    \/ \E p \in PollIds : PollRun(p)
    \/ \E b \in Broadcasters, cam \in Cameras : BroadcastCall(b, cam)
    \/ \E b \in Broadcasters : BroadcastSendDone(b)
    \/ \E b \in Broadcasters : BroadcastReturn(b)

(***************************************************************************)
(* Violation queries: ViolationQueries.get_live_violations over the        *)
(* timeline table that Frigate writes.                                     *)
(***************************************************************************)
FaceDetectionWindow == 3
Timestamps == {DbNow - SecondsPerHour, DbNow - 3, DbNow - 2, DbNow - 1,
               DbNow + 1}
SourceIds == {"ev1", "ev2"}
Names == {"Bob", "Eve"}
NoCamera == "none"
Unknown == "Unknown"

\* The zone names that occur in the modelled rows, and the zone lists of
\* the modelled phone detections.
ZoneLists == {<<>>, <<"desk_1">>, <<"desk_1", "desk_2">>, <<"desk_8">>}

\* The VALUES list desk_assignments, restricted to the zones in use:
\* desk_1 and desk_2 are in the list, desk_8 is not.
DeskAssignments == [z \in {"desk_1", "desk_2"} |->
                       IF z = "desk_1" THEN "Safia Imtiaz" ELSE "Kinza Amin"]

\* desk_list.desk_zone LIKE 'desk_%', over the zone names in use.
LikeDesk(z) == z \in {"desk_1", "desk_2", "desk_8"}

\* Rows of the timeline table: phone detections with their zones, and face
\* detections with a recognised name and score in sub_label.
PhoneRows ==
    [timestamp : Timestamps, camera : Cameras, source_id : SourceIds,
     label : {"cell phone"}, zones : ZoneLists, sub_label : {<<>>}]

FaceRows ==
    [timestamp : Timestamps, camera : Cameras, source_id : {"ev1"},
     label : {"face"}, zones : {<<>>},
     sub_label : {<<n, "0.9">> : n \in Names}]

InitQuery ==
    /\ timeline = {}
    /\ result = <<>>
    /\ qcamera = NoCamera
    /\ qhours = 0
    /\ qlimit = 0
    /\ trend = <<>>
    /\ thours = 0
    /\ tnow = 0

\* Frigate writes a row to the timeline table.
InsertDetection(row) ==
    /\ Cardinality(timeline) < MaxRows
    /\ row \notin timeline
    /\ timeline' = timeline \cup {row}
    /\ result' = <<>>
    /\ qcamera' = NoCamera
    /\ qhours' = 0
    /\ qlimit' = 0
    /\ trend' = <<>>
    /\ thours' = 0
    /\ tnow' = 0
    /\ UNCHANGED notQueryVars

\* The CTE violation_zones: the cell phone rows newer than now minus
\* hours * 3600 seconds, of the given camera when one is given.
ViolationZones(camera, hours) ==
    {p \in timeline :
        /\ p.label = "cell phone"
        /\ p.timestamp > DbNow - hours * SecondsPerHour
        /\ camera # NoCamera => p.camera = camera}

\* jsonb_array_elements_text(vz.zones).
ArrayElements(zones) == {zones[i] : i \in 1..Len(zones)}

\* The rows of the desk join for one id, before DISTINCT ON: the names
\* assigned to the desk zones of all violation_zones rows with that id.
DeskCandidates(vz, id) ==
    {DeskAssignments[z] :
        z \in {y \in UNION {ArrayElements(p.zones) :
                               p \in {r \in vz : r.source_id = id}} :
                  LikeDesk(y) /\ y \in DOMAIN DeskAssignments}}

\* SELECT DISTINCT ON (vz.id) without ORDER BY keeps one of the rows of
\* each id, which one is not determined: the possible outcomes.
DistinctOnChoices(vz) ==
    LET ids == {id \in SourceIds : DeskCandidates(vz, id) # {}} IN
    {pick \in [ids -> UNION {DeskCandidates(vz, id) : id \in ids}] :
        \A id \in ids : pick[id] \in DeskCandidates(vz, id)}

\* One row of the outer SELECT: the LEFT JOIN on id and the two COALESCEs.
LiveViolationRow(v, pick) ==
    [timestamp |-> v.timestamp,
     camera |-> v.camera,
     id |-> v.source_id,
     zones |-> v.zones,
     employee_name |-> IF v.source_id \in DOMAIN pick
                       THEN pick[v.source_id] ELSE Unknown,
     confidence |-> IF v.source_id \in DOMAIN pick THEN "1.0" ELSE "0.0"]

\* The rows in ascending order of timestamp.
OrderByTimestampAsc(S) ==
    {q \in Orders(S) : \A i, j \in 1..Cardinality(S) :
                          i < j => q[i].timestamp <= q[j].timestamp}

\* ORDER BY v.timestamp DESC: the orders in which the rows can come (rows
\* of equal timestamp in any order).
OrderByTimestampDesc(S) ==
    {q \in Orders(S) : \A i, j \in 1..Cardinality(S) :
                          i < j => q[i].timestamp >= q[j].timestamp}

\* LIMIT n.
Limit(q, n) == SubSeq(q, 1, IF n < Len(q) THEN n ELSE Len(q))

\* get_live_violations(db, camera, hours, limit) returns the rows of its
\* query; nearby face detections play no part in it.
GetLiveViolations(camera, hours, limit) ==
    /\ \E pick \in DistinctOnChoices(ViolationZones(camera, hours)) :
       \E q \in OrderByTimestampDesc(ViolationZones(camera, hours)) :
          result' = Limit([i \in 1..Len(q) |-> LiveViolationRow(q[i], pick)],
                          limit)
    /\ qcamera' = camera
    /\ qhours' = hours
    /\ qlimit' = limit
    /\ UNCHANGED <<timeline, trend, thours, tnow>>
    /\ UNCHANGED notQueryVars

NextQuery ==
    \/ \E row \in PhoneRows \cup FaceRows : InsertDetection(row)
    \/ \E camera \in Cameras \cup {NoCamera}, hours \in 1..MaxHours,
          limit \in 1..2 :
          GetLiveViolations(camera, hours, limit)

(***************************************************************************)
(* ViolationQueries.get_hourly_trend.  EXTRACT(EPOCH FROM NOW()) has a     *)
(* fractional part: the times of this query are in tenths of a second.     *)
(***************************************************************************)
TenthsPerSecond == 10

\* The values of NOW() at which the query is run: on a full clock hour, and
\* a little after it with a fraction below and above one half.
TrendNows == {DbNow * TenthsPerSecond,
              DbNow * TenthsPerSecond + 2,
              DbNow * TenthsPerSecond + 7}

\* x::integer for a non-negative x in tenths: the nearest whole second, in
\* tenths.
CastInteger(x) ==
    ((x + TenthsPerSecond \div 2) \div TenthsPerSecond) * TenthsPerSecond

\* generate_series(start, stop, step): start, start + step, ... while not
\* above stop.
RECURSIVE GenerateSeries(_, _, _)
GenerateSeries(start, stop, step) ==
    IF start > stop THEN <<>>
    ELSE <<start>> \o GenerateSeries(start + step, stop, step)

\* The CTE hourly_buckets: "NOW() - hours_seconds::integer" up to
\* "NOW()::integer" in steps of 3600 seconds (the cast binds tighter than
\* the subtraction, so the start keeps the fraction of NOW()).
HourlyBuckets(hours, nowT) ==
    GenerateSeries(nowT - hours * SecondsPerHour * TenthsPerSecond,
                   CastInteger(nowT),
                   SecondsPerHour * TenthsPerSecond)

\* FLOOR(timestamp / 3600) * 3600, for a timestamp in seconds, in tenths.
FloorHour(t) == (t \div SecondsPerHour) * SecondsPerHour * TenthsPerSecond

\* The cell phone rows of the trend window: timestamp > NOW() - hours_seconds.
TrendPhones(hours, nowT) ==
    {p \in timeline :
        /\ p.label = "cell phone"
        /\ p.timestamp * TenthsPerSecond
              > nowT - hours * SecondsPerHour * TenthsPerSecond}

\* The rows f that the subquery nf joins to a phone row p: same camera, a
\* name in sub_label, less than face_window seconds away.
TrendFaces(p) ==
    {f \in timeline :
        /\ f.camera = p.camera
        /\ f.sub_label # <<>>
        /\ f.timestamp - p.timestamp < FaceDetectionWindow
        /\ p.timestamp - f.timestamp < FaceDetectionWindow}

\* DISTINCT ON (p.timestamp, p.camera) ... ORDER BY ..., ABS(f.timestamp -
\* p.timestamp): the names that can be kept for the phone rows with the
\* timestamp and camera of p (a nearest face of any of them; among equally
\* near ones the choice is not determined), 'Unknown' when there is none.
TrendNameChoices(p) ==
    LET near == TrendFaces(p)
        dist(f) == IF f.timestamp >= p.timestamp
                   THEN f.timestamp - p.timestamp
                   ELSE p.timestamp - f.timestamp
    IN IF near = {} THEN {Unknown}
       ELSE {f.sub_label[1] : f \in {g \in near :
                                      \A h \in near : dist(g) <= dist(h)}}

\* The keys (timestamp, camera) of the subquery nf.
TrendKeys(ps) == {<<p.timestamp, p.camera>> : p \in ps}

\* One row of the final SELECT for the bucket starting at b (in tenths):
\* the phone rows whose floored hour equals b, counted, with their cameras
\* and employee names.
TrendRow(b, ps, name) ==
    LET hv == {p \in ps : FloorHour(p.timestamp) = b} IN
    [hour |-> b,
     violations |-> Cardinality(hv),
     cameras |-> {p.camera : p \in hv},
     employees |-> {name[<<p.timestamp, p.camera>>] : p \in hv}]

\* ORDER BY hb.hour_start DESC of an ascending series.
RECURSIVE Reverse(_)
Reverse(q) == IF q = <<>> THEN <<>> ELSE Reverse(Tail(q)) \o <<Head(q)>>

\* get_hourly_trend(db, hours) run at NOW() = nowT.
GetHourlyTrend(hours, nowT) ==
    /\ LET ps == TrendPhones(hours, nowT)
           hb == Reverse(HourlyBuckets(hours, nowT))
       IN \E name \in [TrendKeys(ps) -> Names \cup {Unknown}] :
             /\ \A p \in ps :
                   name[<<p.timestamp, p.camera>>] \in TrendNameChoices(p)
             /\ trend' = [i \in 1..Len(hb) |-> TrendRow(hb[i], ps, name)]
    /\ thours' = hours
    /\ tnow' = nowT
    /\ UNCHANGED <<timeline, result, qcamera, qhours, qlimit>>
    /\ UNCHANGED notQueryVars

NextTrend ==
    \/ \E row \in PhoneRows \cup FaceRows : InsertDetection(row)
    \/ \E hours \in 1..MaxHours, nowT \in TrendNows :
          GetHourlyTrend(hours, nowT)

(***************************************************************************)
(* GET /api/violations/live: the cache-aside read of the live list, and    *)
(* the write of the same cache by the violation_polling task.  A list is   *)
(* described by its length and the arguments of the query that made it.    *)
(***************************************************************************)
\* The values of the limit parameter in use: the default of the key
\* (CacheKeys.live_violations(camera=None, limit=50)) and the limit of the
\* query of the violation_polling task.
DefaultLimit == 50
PollingLimit == 100
LiveLimits == {DefaultLimit, PollingLimit}

\* The number of violations that Frigate stores at a time for one camera
\* and one hour.
BurstSize == 60

\* CacheKeys.live_violations(camera, limit):
\* f"violations:live{camera_part}:{limit}", camera_part empty for no camera.
LiveKey(camera, limit) ==
    <<"violations:live", IF camera = NoCamera THEN "" ELSE camera, limit>>

\* The camera parameters of the requests: none, or one camera.
LiveCameras == {NoCamera, "employees_01"}

LiveKeys == {LiveKey(c, l) : c \in LiveCameras, l \in LiveLimits}

NoServe == [limit |-> 0]

InitLive ==
    /\ stored = [c \in Cameras |-> [h \in 1..MaxHours |-> 0]]
    /\ liveCache = [k \in LiveKeys |-> NoEntry]
    /\ served = NoServe

\* Frigate stores a burst of phone violations of camera c that are between
\* h - 1 and h hours old.
StoreBurst(c, h) ==
    /\ stored[c][h] = 0
    /\ stored' = [stored EXCEPT ![c][h] = BurstSize]
    /\ UNCHANGED <<liveCache, served>>
    /\ UNCHANGED notLiveVars

RECURSIVE SumOver(_, _)
SumOver(S, f) ==
    IF S = {} THEN 0
    ELSE LET x == CHOOSE y \in S : TRUE IN f[x] + SumOver(S \ {x}, f)

\* The number of stored violations that match camera and hours.
Matching(camera, hours) ==
    SumOver({<<c, h>> \in Cameras \X (1..hours) :
                camera # NoCamera => c = camera},
            [ch \in Cameras \X (1..MaxHours) |-> stored[ch[1]][ch[2]]])

\* The list that get_live_violations(camera, hours, limit) returns (LIMIT
\* cuts it to limit rows); format_violation_data maps it row by row.
LiveList(camera, hours, limit) ==
    [present |-> TRUE,
     n |-> IF Matching(camera, hours) < limit
           THEN Matching(camera, hours) ELSE limit,
     camera |-> camera, hours |-> hours, limit |-> limit]

\* One tick of _violation_polling_task as far as the live list goes: the
\* rows of get_live_violations(hours=1, limit=100) are stored under
\* CacheKeys.live_violations(), the key of no camera and limit 50.
PollingTaskWrite ==
    /\ liveCache' = [liveCache EXCEPT ![LiveKey(NoCamera, DefaultLimit)] =
                        LiveList(NoCamera, 1, PollingLimit)]
    /\ UNCHANGED <<stored, served>>
    /\ UNCHANGED notLiveVars

\* The entry of a key expires (cache_ttl_live_violations).
LiveExpire(k) ==
    /\ liveCache[k].present
    /\ liveCache' = [liveCache EXCEPT ![k] = NoEntry]
    /\ UNCHANGED <<stored, served>>
    /\ UNCHANGED notLiveVars

\* The response for a request (camera, limit, hours) with the list l.
Response(camera, limit, hours, l, hit) ==
    [camera |-> camera, limit |-> limit, hours |-> hours, n |-> l.n,
     from_cache |-> hit, for_camera |-> l.camera, for_limit |-> l.limit,
     for_hours |-> l.hours]

\* GET /api/violations/live with (camera, limit, hours): the entry under
\* CacheKeys.live_violations(camera, limit) is served when there is one;
\* otherwise the list is queried, stored under that key and served.
GetLiveViolationsEndpoint(camera, limit, hours) ==
    LET k == LiveKey(camera, limit) IN
    /\ IF liveCache[k].present
       THEN /\ served' = Response(camera, limit, hours, liveCache[k], TRUE)
            /\ UNCHANGED liveCache
       ELSE /\ served' = Response(camera, limit, hours,
                                  LiveList(camera, hours, limit), FALSE)
            /\ liveCache' = [liveCache EXCEPT ![k] =
                                LiveList(camera, hours, limit)]
    /\ UNCHANGED stored
    /\ UNCHANGED notLiveVars

NextLive ==
    \/ \E c \in Cameras, h \in 1..MaxHours : StoreBurst(c, h)
    \/ PollingTaskWrite
    \/ \E k \in LiveKeys : LiveExpire(k)
    \/ \E camera \in LiveCameras, limit \in LiveLimits, hours \in 1..MaxHours :
          GetLiveViolationsEndpoint(camera, limit, hours)

Init ==
    /\ InitCache
    /\ InitTasks
    /\ InitHub
    /\ InitQuery
    /\ statusOut = "none"
    /\ wsStalled = [c \in WS |-> FALSE]
    /\ last_check = [p \in PollIds |-> 0]
    /\ InitLive

SpecCache == Init /\ [][NextCache]_vars

SpecTasks == Init /\ [][NextTasks]_vars

\* The four loops between start() and stop(), with the clock running.
NextTicks ==
    \/ Tick
    \/ \E i \in InstIds : TaskRun(i)
    \/ \E i \in InstIds : TaskFail(i)
    \/ StartCall(1)
    \/ StartCreate(1)
    \/ StopCall
    \/ StopResume
    \/ StopClose

SpecTicks == Init /\ [][NextTicks]_vars

\* start(), stop() and the loops, with get_task_status called at any time.
NextStatus ==
    \/ \E i \in InstIds : TaskRun(i)
    \/ \E i \in InstIds : TaskFail(i)
    \/ StartCall(1)
    \/ StartCreate(1)
    \/ StopCall
    \/ StopResume
    \/ StopClose
    \/ GetTaskStatus

SpecStatus == Init /\ [][NextStatus]_vars

\* A step of a task of one of the two short loops, or of a cancelled task.
ShortLoopRun(i) ==
    /\ iname[i] \in {"cache_cleanup", "health_check"} \/ icancel[i] # "no"
    /\ TaskRun(i)

\* start() called by several callers, stop() and the loops; of the loops
\* only the two short ones are scheduled, the other two stay where they are
\* until they are cancelled.
NextStart ==
    \/ \E i \in InstIds : ShortLoopRun(i)
    \/ \E s \in Starters : StartCall(s)
    \/ \E s \in Starters : StartCreate(s)
    \/ StopCall
    \/ StopResume
    \/ StopClose

SpecStart == Init /\ [][NextStart]_vars

\* start(), stop() and the loops, with dependencies that can stop answering.
NextStall ==
    \/ \E i \in InstIds : TaskRun(i)
    \/ \E i \in InstIds : TaskFail(i)
    \/ \E i \in InstIds : TaskStall(i)
    \/ StartCall(1)
    \/ StartCreate(1)
    \/ StopCall
    \/ StopResume
    \/ StopClose

SpecStall == Init /\ [][NextStall]_vars

SpecHub == Init /\ [][NextHub]_vars

\* Connections, clients that stop reading, and broadcasts.  A send to a
\* client that reads completes, and an endpoint whose broadcast is over
\* answers.
NextStalled ==
    \/ \E c \in WS, t \in ClientTypes : ConnectBegin(c, t)
    \/ \E c \in WS : ConnectAccept(c)
    \/ \E c \in WS : ClientStalls(c)
    \/ \E b \in Broadcasters, cam \in Cameras : BroadcastCall(b, cam)
    \/ \E b \in Broadcasters : BroadcastSendDone(b)
    \/ \E b \in Broadcasters : BroadcastReturn(b)

SpecStalled ==
    /\ Init
    /\ [][NextStalled]_vars
    /\ \A b \in Broadcasters : WF_vars(BroadcastSendDone(b))
    /\ \A b \in Broadcasters : WF_vars(BroadcastReturn(b))

\* The polling task of the hub over a store that Frigate writes to, with
\* the clock running.
NextPoll ==
    \/ Tick
    \/ \E row \in {r \in PhoneRows : r.zones = <<>> /\ r.source_id = "ev1"} :
          InsertDetection(row)
    \/ \E c \in WS, t \in ClientTypes : ConnectBegin(c, t)
    \/ \E c \in WS : ConnectAccept(c)
    \/ \E p \in PollIds : PollRun(p)

SpecPoll == Init /\ [][NextPoll]_vars

SpecQuery == Init /\ [][NextQuery]_vars

SpecTrend == Init /\ [][NextTrend]_vars

SpecLive == Init /\ [][NextLive]_vars

Spec == SpecCache

\* C1: concurrent cache-aside reads of the same missing key never run the
\* refresh function more than once at a time (single-flight).
C1_SingleFlight ==
    \A k \in Keys :
        Cardinality({r \in Readers : rpc[r] = "func" /\ rkey[r] = k}) <= 1

\* C4: a value handed out by CacheManager.get is never older than the TTL
\* it was written with.
C4_TtlAuthoritative ==
    lastRead.found => lastRead.age < lastRead.ttl

\* C2: at every moment at most one live instance of each named background
\* task exists, whatever the interleaving of restart_task calls.
C2_OneLiveInstancePerName ==
    \A n \in TaskNames :
        Cardinality({i \in InstIds : Live(i) /\ iname[i] = n}) <= 1

\* C3: a task that stop() cancelled in the middle of a tick (after the
\* first awaited call of the tick, with calls of the tick still to come) is
\* not finished by the shutdown at that point.
C3_StopWaitsForTick ==
    [][\A i \in InstIds :
          (icancel[i] = "stop" /\ ist[i] = "op" /\ iop[i] >= 2)
              => ist'[i] \notin {"done", "cancelled"}]_vars

\* C5: when a broadcast to the violations group finishes, every connection
\* of its snapshot that was not dead when visited has received the message
\* (a failure did not cut the loop short), and the step removes from the
\* registry exactly the connections found dead.
C5_BroadcastIsolatesFailures ==
    [][\A b \in Broadcasters :
          (bpc[b] # "done" /\ bpc'[b] = "done") =>
              /\ bgot'[b] = bsnap'[b] \ bdead'[b]
              /\ all_connections' = all_connections \ bdead'[b]
              /\ violation_connections' = violation_connections \ bdead'[b]]_vars

\* C5 witness: a finished broadcast that met a dead connection and delivered
\* to a live one.
C5_Witness ==
    \E b \in Broadcasters :
        /\ bpc[b] = "done"
        /\ bdead[b] # {}
        /\ bgot[b] # {}
        /\ bdead[b] \cap all_connections = {}
        /\ bgot[b] \cap all_connections # {}

\* C6: no send is started to a connection that some running broadcast has
\* already found dead (failed send or non-connected state) while that
\* connection is still in the registry.
C6_NoSendBeforeRemoval ==
    [][\A b \in Broadcasters, c \in WS :
          (bcur'[b] = c /\ bcur[b] # c /\ \E o \in Broadcasters : c \in bdisc[o])
              => c \notin all_connections]_vars

\* A state with no connect, disconnect-scheduled stop_polling or cancelled
\* polling task still pending.
NoPendingCalls ==
    /\ stopNew = 0
    /\ stopAwait = {}
    /\ \A c \in WS : hpc[c] # "accept"
    /\ \A p \in PollIds : ~pcancel[p]

\* C7: once all pending connect, disconnect and stop_polling calls have
\* finished, a non-empty registry implies that polling is running:
\* is_polling is true and the polling task is live.
C7_RegisteredImpliesPolling ==
    (NoPendingCalls /\ all_connections # {})
        => (is_polling /\ polling_task # 0 /\ PollLive(polling_task))

\* C8: a message pushed to a connection after that connection sent
\* update_filter with a camera carries only violations of that camera.
C8_PushMatchesFilter ==
    [][\A b \in Broadcasters, c \in WS :
          (bcur'[b] = c /\ bcur[b] # c /\ wsInbox[c] # NoFilter)
              => bcam'[b] = wsInbox[c]]_vars

\* The rows that a call of get_live_violations has returned.
ResultRows ==
    {result[i] : i \in 1..Len(result)}

\* C9: every returned phone detection whose first zone is in the desk
\* assignment table carries the name assigned to that first zone and
\* confidence 1.0.
C9_FirstZoneDeskName ==
    \A r \in ResultRows :
        (r.zones # <<>> /\ r.zones[1] \in DOMAIN DeskAssignments)
            => (r.employee_name = DeskAssignments[r.zones[1]]
                /\ r.confidence = "1.0")

\* The face detections on the camera of row r within the face window.
FacesNear(r) ==
    {f \in timeline :
        /\ f.label = "face"
        /\ f.camera = r.camera
        /\ f.timestamp - r.timestamp <= FaceDetectionWindow
        /\ r.timestamp - f.timestamp <= FaceDetectionWindow}

\* Absolute time difference between a face detection and row r.
AbsDelta(f, r) ==
    IF f.timestamp >= r.timestamp THEN f.timestamp - r.timestamp
    ELSE r.timestamp - f.timestamp

\* The nearest of the faces near r, the earliest among equally near ones.
NearestFaces(r) ==
    {f \in FacesNear(r) :
        \A g \in FacesNear(r) :
            \/ AbsDelta(f, r) < AbsDelta(g, r)
            \/ AbsDelta(f, r) = AbsDelta(g, r) /\ f.timestamp <= g.timestamp}

\* C10: every returned phone detection with no desk-assigned zone and a
\* face detection on its camera within the face window carries the name and
\* score of the nearest such face (the earliest on ties).
C10_NearestFaceFallback ==
    \A r \in ResultRows :
        ((\A i \in 1..Len(r.zones) : r.zones[i] \notin DOMAIN DeskAssignments)
         /\ FacesNear(r) # {})
            => \E f \in NearestFaces(r) :
                  /\ r.employee_name = f.sub_label[1]
                  /\ r.confidence = f.sub_label[2]

\* C11: the list returned by get_live_violations never contains two
\* records with the same violation id.
C11_UniqueViolationIds ==
    \A i, j \in 1..Len(result) : i # j => result[i].id # result[j].id

\* C12: get_hourly_trend(hours = H) returns exactly H buckets, newest
\* first, no hour twice.
C12_TrendHasHoursBuckets ==
    thours # 0 =>
        /\ Len(trend) = thours
        /\ \A i, j \in 1..Len(trend) : i < j => trend[i].hour > trend[j].hour

\* C13: every phone violation of the trend window is counted in the bucket
\* whose hour_start is its timestamp floored to the clock hour, and the
\* bucket counts sum to the number of violations of the window.
C13_TrendCountsEveryViolation ==
    thours # 0 =>
        \A p \in TrendPhones(thours, tnow) :
            \E i \in 1..Len(trend) :
                /\ trend[i].hour = FloorHour(p.timestamp)
                /\ trend[i].violations =
                      Cardinality({r \in TrendPhones(thours, tnow) :
                                      FloorHour(r.timestamp)
                                          = FloorHour(p.timestamp)})

\* Result row r is the row of the timeline row p.
RowOf(r, p) ==
    /\ r.timestamp = p.timestamp
    /\ r.camera = p.camera
    /\ r.id = p.source_id
    /\ r.zones = p.zones

\* C14: the list returned by get_live_violations is ordered by timestamp
\* non-increasing and consists of the first `limit` of all matching
\* violations in that order: no row twice, every row a matching violation,
\* min(limit, number of matching violations) rows, and no matching
\* violation left out that is newer than a returned one.
C14_OrderedAndLimited ==
    qhours # 0 =>
        LET vz == ViolationZones(qcamera, qhours) IN
        /\ \A i, j \in 1..Len(result) :
              i < j => /\ result[i].timestamp >= result[j].timestamp
                       /\ result[i] # result[j]
        /\ Len(result) = IF qlimit < Cardinality(vz) THEN qlimit
                         ELSE Cardinality(vz)
        /\ \A i \in 1..Len(result) : \E p \in vz : RowOf(result[i], p)
        /\ \A p \in vz :
              (\A i \in 1..Len(result) : ~RowOf(result[i], p))
                  => \A i \in 1..Len(result) :
                        result[i].timestamp >= p.timestamp

\* C14 witness: two matching violations of different age and limit 1: the
\* newer one is returned, the older one is cut off.
C14_Witness ==
    /\ qhours # 0
    /\ qlimit = 1
    /\ Len(result) = 1
    /\ \E p \in ViolationZones(qcamera, qhours) :
          p.timestamp < result[1].timestamp

\* The phone detections of the closed window [now - h * 3600, now] on the
\* camera asked for.
ClosedWindow(camera, hours) ==
    {p \in timeline :
        /\ p.label = "cell phone"
        /\ DbNow - hours * SecondsPerHour <= p.timestamp
        /\ p.timestamp <= DbNow
        /\ camera # NoCamera => p.camera = camera}

\* C15: get_live_violations(hours = h, camera = c) returns exactly the phone
\* detections with now - h * 3600 <= t <= now on camera c: every returned
\* row is one of them and, unless the limit cut the list, each of them is
\* returned.
C15_ClosedWindow ==
    qhours # 0 =>
        /\ \A i \in 1..Len(result) :
              \E p \in ClosedWindow(qcamera, qhours) : RowOf(result[i], p)
        /\ Len(result) < qlimit =>
              \A p \in ClosedWindow(qcamera, qhours) :
                  \E i \in 1..Len(result) : RowOf(result[i], p)

\* C16: a violation_polling tick pushes its violations to the WebSocket
\* subscribers, and only after its write of the live-violations cache entry
\* (the second awaited call of the tick) has completed: a push that starts
\* while the tick runs finds the write done, and a tick that runs to its
\* end has handed its list to the hub.
C16_CacheWriteBeforePush ==
    [][\A i \in InstIds :
          (iname[i] = "violation_polling" /\ ist[i] = "op") =>
              /\ (\E b \in Broadcasters : bpc[b] = "idle" /\ bpc'[b] # "idle")
                    => iop[i] > 2
              /\ (iop[i] = Len(BodyOps(iname[i])) /\ ist'[i] = "sleep")
                    => \E b \in Broadcasters : bpc'[b] # "idle"]_vars

\* C17: a tick whose store query fails writes no new value for and deletes
\* nothing from the cache key that the query feeds: the step in which the
\* query raises leaves that key's entry as it was, and the tick is over.
C17_FailedQueryKeepsCache ==
    [][\A i \in InstIds :
          (/\ ist[i] = "op"
           /\ BodyOps(iname[i])[iop[i]] = "db"
           /\ ist'[i] \notin {"op", "cancelled"}
           /\ TickKey(iname[i], iop[i]) \in Keys)
              => /\ redisData'[TickKey(iname[i], iop[i])]
                       = redisData[TickKey(iname[i], iop[i])]
                 /\ iop'[i] = 0]_vars

\* C17 witness: a violation_polling tick has failed at a later time than
\* the two cache entries were written, and both entries are still there.
C17_Witness ==
    \E i \in InstIds :
        /\ iname[i] = "violation_polling"
        /\ ist[i] = "failed"
        /\ \A k \in Keys : redisData[k].present /\ redisData[k].set_at < now

\* C19: a body error leaves the loop alive and asleep, from where it starts
\* its next tick; a task ends only through cancellation or after the
\* manager has stopped; and the step in which one task's body fails changes
\* nothing of any other task.
C19_BodyErrorKeepsLoop ==
    [][\A i \in InstIds :
          /\ (Live(i) /\ ist'[i] \in {"done", "cancelled"})
                => (icancel[i] # "no" \/ ~is_running)
          /\ (ist[i] = "failed" /\ ist'[i] # "failed")
                => \/ ist'[i] = "op" /\ iop'[i] = 1
                   \/ icancel[i] # "no"
                   \/ ~is_running
          /\ (ist[i] = "op" /\ ist'[i] = "failed")
                => \A j \in InstIds \ {i} :
                      /\ ist'[j] = ist[j]
                      /\ iop'[j] = iop[j]
                      /\ icancel'[j] = icancel[j]]_vars

\* C19 witness: while the manager is running, one loop is asleep after a
\* body error and another loop is in the middle of a tick.
C19_Witness ==
    /\ is_running
    /\ \E i, j \in InstIds :
          /\ i # j
          /\ ist[i] = "failed"
          /\ Live(i)
          /\ ist[j] = "op"
          /\ iop[j] >= 2

\* C18: a failure of the cache backend during the read is treated as a
\* miss: a caller leaves its cache read either with a hit of a stored value
\* or into the fresh store query, never with an error, and a read that
\* failed leads into the query.
C18_ReadErrorIsMiss ==
    [][\A r \in Readers :
          (rpc[r] = "get" /\ rpc'[r] # "get") =>
              /\ \/ rpc'[r] = "func"
                 \/ /\ rpc'[r] = "idle"
                    /\ lastRead'.found
                    /\ CacheManagerGet(rkey[r]) # None
              /\ lastRead' = ErrorRead => rpc'[r] = "func"]_vars

\* C18 witness: the last cache read failed although the key holds a live
\* value, and its caller is running the store query.
C18_Witness ==
    /\ lastRead = ErrorRead
    /\ \E r \in Readers :
          /\ rpc[r] = "func"
          /\ CacheManagerGet(rkey[r]) # None
          /\ \A o \in Readers \ {r} : rpc[o] = "idle"

\* C20: get_task_status, called in any reachable state of the manager,
\* returns the status and never raises.
C20_StatusNeverRaises == statusOut # "raised"

\* C21: every awaited store or cache call of a task body is bounded by a
\* timeout shorter than the interval of its loop: a task suspended in a
\* call that does not answer has such a timeout ahead of it.
C21_CallsBoundedByTimeout ==
    \A i \in InstIds :
        ist[i] = "hung" =>
            /\ CallTimeout(BodyOps(iname[i])[iop[i]]) # None
            /\ CallTimeout(BodyOps(iname[i])[iop[i]]) < Interval(iname[i])

\* C22: a client whose send never completes does not keep the other members
\* of the group from receiving the message: every reading member of a
\* running broadcast's group that the broadcast has not yet served
\* eventually receives its message.
C22_StalledClientDoesNotBlock ==
    \A b \in Broadcasters, d \in WS :
        (bpc[b] = "sending" /\ d \in brem[b] /\ LiveConn(d) /\ ~wsStalled[d])
            ~> (d \in bgot[b] \/ wsStalled[d])

\* C23: disconnect removes the connection from the violations group, the
\* dashboard group and all_connections and touches no other member; a
\* disconnect for a connection that is not registered any more (its handler
\* ended before the broadcast that found it dead, or the other way round)
\* leaves the three sets exactly as they were.
C23_DisconnectIdempotent ==
    [][/\ \A c \in WS :
             (hpc[c] = "initial" /\ hpc'[c] = "ended") =>
                 /\ violation_connections' = violation_connections \ {c}
                 /\ dashboard_connections' = dashboard_connections \ {c}
                 /\ all_connections' = all_connections \ {c}
       /\ \A b \in Broadcasters :
             (bpc[b] # "done" /\ bpc'[b] = "done") =>
                 /\ violation_connections' = violation_connections \ bdisc'[b]
                 /\ dashboard_connections' = dashboard_connections \ bdisc'[b]
                 /\ all_connections' = all_connections \ bdisc'[b]]_vars

\* C23 witness: a broadcast has called disconnect for a connection whose
\* handler has called it as well, while another connection is registered.
C23_Witness ==
    \E b \in Broadcasters, c \in WS :
        /\ bpc[b] = "done"
        /\ c \in bdisc[b]
        /\ hpc[c] = "ended"
        /\ all_connections # {}

\* The polling tasks that are live and whose cancellation was not requested.
ActivePolls == {p \in PollIds : PollLive(p) /\ ~pcancel[p]}

\* C29: there is never more than one live, non-cancelled polling task, and
\* is_polling is true exactly when there is one.
C29_OnePollingTask ==
    /\ Cardinality(ActivePolls) <= 1
    /\ is_polling <=> ActivePolls # {}

\* C29 witness: polling was stopped and started again: the cancelled task
\* has not finished yet while the new one is polling.
C29_Witness ==
    /\ is_polling
    /\ polling_task \in ActivePolls
    /\ \E p \in PollIds : p # polling_task /\ PollLive(p) /\ pcancel[p]

\* C30: all_connections is the union of the violations group and the
\* dashboard group, and no connection is in both groups.
C30_AllIsUnionOfGroups ==
    /\ all_connections = violation_connections \cup dashboard_connections
    /\ violation_connections \cap dashboard_connections = {}

\* C30 witness: after a broadcast has returned and a handler has
\* disconnected, a dashboard connection is registered.
C30_Witness ==
    /\ \E b \in Broadcasters : bpc[b] = "returned"
    /\ \E c \in WS : hpc[c] = "ended"
    /\ dashboard_connections # {}

\* C26: a poll tick whose query returns a violation newer than last_check
\* sends its messages to the subscribers before it goes to sleep, and
\* advances last_check to the time of the tick.
C26_NewViolationsArePushed ==
    [][\A p \in PollIds :
          (/\ pst[p] = "fetch"
           /\ ~pcancel[p]
           /\ pst'[p] # "fetch"
           /\ NewViolations(p) # {}) =>
              /\ last_check'[p] = CurrentTimestamp
              /\ all_connections # {} => pst'[p] # "sleep"]_vars

\* C24: every list served for a live-violations read with limit L has at
\* most L entries, whether it comes from the cache or from the query.
C24_ServedWithinLimit ==
    served # NoServe => served.n <= served.limit

\* C25: a response served from the cache was computed for the camera, the
\* limit and the hours of the request it answers.
C25_CachedForSameParameters ==
    (served # NoServe /\ served.from_cache) =>
        /\ served.for_camera = served.camera
        /\ served.for_limit = served.limit
        /\ served.for_hours = served.hours

C27_StartCreatesEachTaskOnce ==
    /\ \A n \in TaskNames :
          Cardinality({i \in InstIds : Live(i) /\ iname[i] = n}) <= 1
    /\ \A i \in InstIds : Live(i) => tasks[iname[i]] = i

====
